---------------------------- MODULE Spec2Model ----------------------------
(***************************************************************************)
(* Model of src/document.rs: document() and the recursive document_val().  *)
(*                                                                         *)
(* A serde_yaml::Value is a record [t |-> variant, v |-> payload].  Text   *)
(* is a sequence of tokens; a token is a short run of characters that the  *)
(* program always handles as a unit ("\n", the four-space INDENT, "# ",    *)
(* "- ", a word).  The output buffer `content` is a sequence of runs, a    *)
(* run being one token pushed n times in a row; Flat gives its tokens.     *)
(*                                                                         *)
(* The recursion of document_val is unfolded into an explicit call stack:  *)
(* one frame per active call, one action per straight-line piece of the    *)
(* function body between two recursive calls.                              *)
(***************************************************************************)
EXTENDS Integers, Sequences, FiniteSets, TLC

VARIABLES val, description, content, stack, ret, result, pc

vars == <<val, description, content, stack, ret, result, pc>>

-----------------------------------------------------------------------------
(* Tokens *)

NL == "\n"
INDENT == "    "
HASH == "# "
DASH == "- "
DESCRIPTION == <<"__description__">>

(* u8::MAX, the largest value of indent_level *)
U8Max == 255

(* The token tok pushed n times in a row, and a text pushed token by token *)
Run(tok, n) == [s |-> tok, n |-> n]

Txt(s) == [j \in 1..Len(s) |-> Run(s[j], 1)]

(* The tokens of a buffer *)
RECURSIVE Flat(_)
Flat(c) ==
    IF c = <<>> THEN <<>>
    ELSE [j \in 1..Head(c).n |-> Head(c).s] \o Flat(Tail(c))

-----------------------------------------------------------------------------
(* serde_yaml::Value and Option<&Value> *)

None == [t |-> "None", v |-> <<>>]
Null == [t |-> "Null", v |-> <<>>]
Bool(b) == [t |-> "Bool", v |-> b]
Number(n) == [t |-> "Number", v |-> n]
String(s) == [t |-> "String", v |-> s]
Sequence(s) == [t |-> "Sequence", v |-> s]
Mapping(m) == [t |-> "Mapping", v |-> m]
Tagged(tag, value) == [t |-> "Tagged", v |-> [tag |-> tag, value |-> value]]

Entry(k, v) == [k |-> k, v |-> v]

(* A tree of n >= 1 single-child containers of one kind around Null is
   written [t, nested] and unfolded one container at a time: a mapping
   {foo: child} or a list [child]. *)
Nested(kind, n) == [t |-> kind, nested |-> n]

Items(x) ==
    IF "v" \in DOMAIN x THEN x.v
    ELSE LET child == IF x.nested = 1 THEN Null ELSE Nested(x.t, x.nested - 1)
         IN  IF x.t = "Mapping"
             THEN <<Entry(String(<<"foo">>), child)>>
             ELSE <<child>>

(* Value::untag_ref: strips every enclosing tag *)
RECURSIVE untag_ref(_)
untag_ref(x) == IF x.t = "Tagged" THEN untag_ref(x.v.value) ELSE x

(* Value::as_mapping, Value::as_str, Value::is_string see through tags *)
as_mapping(d) == IF untag_ref(d).t = "Mapping" THEN untag_ref(d) ELSE None

as_str(x) == IF untag_ref(x).t = "String" THEN untag_ref(x) ELSE None

is_string(x) == untag_ref(x).t = "String"

(* Mapping::get: the value stored under an equal key, if any *)
Get(m, key) ==
    IF \E j \in 1..Len(m.v) : m.v[j].k = key
    THEN m.v[CHOOSE j \in 1..Len(m.v) : m.v[j].k = key].v
    ELSE None

(* Option::is_none *)
IsNone(o) == o.t = "None"

-----------------------------------------------------------------------------
(* Text conversions *)

(* Display of the numbers and booleans used in the inputs *)
NumText(n) == <<ToString(n)>>

BoolText(b) == IF b THEN <<"true">> ELSE <<"false">>

(* format!("{:?}", key) for a key that is not a string *)
RECURSIVE DebugFmt(_)
DebugFmt(x) ==
    CASE x.t = "Null" -> <<"Null">>
      [] x.t = "Bool" -> <<"Bool(">> \o BoolText(x.v) \o <<")">>
      [] x.t = "Number" -> <<"Number(">> \o NumText(x.v) \o <<")">>
      [] x.t = "String" -> <<"String(\"">> \o x.v \o <<"\")">>
      [] x.t = "Tagged" -> <<"TaggedValue { tag: ", x.v.tag, ", value: ">>
                             \o DebugFmt(x.v.value) \o <<" }">>

(* The YAML emitter writes a string plain when it can be read back as the
   same string, and single-quoted otherwise: an empty string, or one that
   starts with the comment indicator. *)
NeedsQuote(s) == s = <<>> \/ Head(s) = HASH

ScalarText(x) ==
    CASE x.t = "Null" -> <<"null">>
      [] x.t = "Bool" -> BoolText(x.v)
      [] x.t = "Number" -> NumText(x.v)
      [] x.t = "String" -> IF NeedsQuote(x.v) THEN <<"'">> \o x.v \o <<"'">>
                                              ELSE x.v

(* serde_yaml::to_string on a leaf: Ok(text ending in a line break), or Err
   for a tag directly inside a tag (SerializeNestedEnum). *)
ToYaml(x) ==
    IF x.t = "Tagged"
    THEN IF x.v.value.t = "Tagged"
         THEN [ok |-> FALSE, s |-> <<>>]
         ELSE [ok |-> TRUE,
               s |-> <<x.v.tag, " ">> \o ScalarText(x.v.value) \o <<NL>>]
    ELSE [ok |-> TRUE, s |-> ScalarText(x) \o <<NL>>]

-----------------------------------------------------------------------------
(* Pieces of document_val *)

(* fn indent: n copies of INDENT *)
indent(n) == IF n = 0 THEN <<>> ELSE <<Run(INDENT, n)>>

(* A label table with a misspelt variant *)
ValueTypeBound(value) ==
    CASE value.t = "Null" -> "Null"
      [] value.t = "Bool" -> "Bound"
      [] value.t = "Number" -> "Number"
      [] value.t = "String" -> "String"
      [] value.t = "Sequence" -> "List"
      [] value.t = "Mapping" -> "Mapping"
      [] value.t = "Tagged" -> "Tagged"

(* let ty = match value { ... }, printed with {:?} *)
ValueType(value) ==
    CASE value.t = "Null" -> "Null"
      [] value.t = "Bool" -> "Bool"
      [] value.t = "Number" -> "Number"
      [] value.t = "String" -> "String"
      [] value.t = "Sequence" -> "List"
      [] value.t = "Mapping" -> "Mapping"
      [] value.t = "Tagged" -> "Tagged"

(* let desc_value = description.and_then(|d| d.as_mapping())
                               .and_then(|m| m.get(key)) *)
DescValue(d, key) ==
    LET m == IF IsNone(d) THEN None ELSE as_mapping(d)
    IN  IF IsNone(m) THEN None ELSE Get(m, key)

(* A renderer that finds the comment only in a plain string node *)
DescTextStringOnly(inner) == IF inner.t = "String" THEN inner ELSE None

(* The comment text chosen by `match inner`, or None *)
DescText(inner) ==
    CASE inner.t = "String" -> inner
      [] inner.t = "Mapping" ->
            LET v == Get(inner, String(DESCRIPTION))
            IN  IF IsNone(v) THEN None ELSE as_str(v)
      [] OTHER -> None

(* A renderer that pushes the comment prefix even without a text *)
CommentAlways(desc_value, indent_level) ==
    indent(indent_level)
        \o Txt(<<HASH>>
               \o (IF DescText(desc_value).t = "None" THEN <<>>
                                                      ELSE DescText(desc_value).v)
               \o <<NL>>)

(* The comment line pushed by `if let Some(inner) = desc_value` *)
Comment(desc_value, indent_level) ==
    IF DescText(desc_value).t = "None"
    THEN <<>>
    ELSE indent(indent_level)
             \o Txt(<<HASH>> \o DescText(desc_value).v \o <<NL>>)

(* let k = if key.is_string() {...} else { format!("{:?}", key) } *)
KeyText(key) == IF is_string(key) THEN as_str(key).v ELSE DebugFmt(key)

(* The key line: indentation, then format!("{} ({:?}): ", &k, ty) *)
KeyLine(key, value, indent_level) ==
    indent(indent_level)
        \o Txt(KeyText(key) \o <<" (", ValueType(value), "): ">>)

(* indent_level + 1 on a u8, as a build without overflow checks computes it *)
NextLevel(indent_level) == (indent_level + 1) % (U8Max + 1)

(* The arguments of one call of document_val; pos is the position in the
   body: 0 at entry, j >= 1 before the j-th iteration of the for loop. *)
Frame(v, d, l) == [val |-> v, description |-> d, indent_level |-> l, pos |-> 0]

IsLeaf(v) == v.t \notin {"Mapping", "Sequence"}

-----------------------------------------------------------------------------
(* The running program: the buffer, the call stack of document_val, the
   Result returned by the call that ended last, and document's own Result. *)

Machine(c, s, r, res, p) ==
    [content |-> c, stack |-> s, ret |-> r, result |-> res, pc |-> p]

NoResult == [ok |-> FALSE, s |-> <<>>]

Top(m) == m.stack[Len(m.stack)]

Running(m) == m.pc = "run" /\ m.stack # <<>>

Entries(m) == Items(Top(m).val)

(* The stack with the top frame advanced to the next loop iteration *)
Advance(m) ==
    [m.stack EXCEPT ![Len(m.stack)].pos = Top(m).pos + 1]

(* The stack after the top call returned *)
Pop(m) == SubSeq(m.stack, 1, Len(m.stack) - 1)

(* document: let mut content = String::new(); document_val(.., 0) *)
DocumentCallStep(v, d) ==
    Machine(<<>>, <<Frame(v, d, 0)>>, "none", NoResult, "run")

(* Value::Mapping arm, before the loop: the leading line break *)
AtMappingBegin(m) ==
    Running(m) /\ Top(m).val.t = "Mapping" /\ Top(m).pos = 0

(* A renderer that pushes the line break at every level *)
MappingBeginStepAlways(m) ==
    [m EXCEPT !.content = @ \o Txt(<<NL>>), !.stack = Advance(m)]

MappingBeginStep(m) ==
    [m EXCEPT !.content = IF Top(m).indent_level > 0 THEN @ \o Txt(<<NL>>)
                                                     ELSE @,
              !.stack = Advance(m)]

(* One iteration of `for (key, value) in m.iter()`, up to and including the
   recursive call on line 85 *)
AtMappingEntry(m) ==
    /\ Running(m) /\ Top(m).val.t = "Mapping"
    /\ Top(m).pos >= 1 /\ Top(m).pos <= Len(Entries(m))

(* A renderer that walks the entries of a mapping from the last one *)
MappingEntryStepReversed(m) ==
    LET f == Top(m)
        e == Entries(m)[Len(Entries(m)) + 1 - f.pos]
        desc_value == DescValue(f.description, e.k)
    IN  [m EXCEPT !.content = @ \o Comment(desc_value, f.indent_level)
                                \o KeyLine(e.k, e.v, f.indent_level),
                  !.stack = Append(Advance(m),
                                   Frame(e.v, desc_value,
                                         NextLevel(f.indent_level)))]

MappingEntryStep(m) ==
    LET f == Top(m)
        e == Entries(m)[f.pos]
        desc_value == DescValue(f.description, e.k)
    IN  [m EXCEPT !.content = @ \o Comment(desc_value, f.indent_level)
                                \o KeyLine(e.k, e.v, f.indent_level),
                  !.stack = Append(Advance(m),
                                   Frame(e.v, desc_value,
                                         NextLevel(f.indent_level)))]

(* The loop is over: Ok(()) on line 100 *)
AtMappingEnd(m) ==
    /\ Running(m) /\ Top(m).val.t = "Mapping"
    /\ Top(m).pos > Len(Entries(m))

MappingEndStep(m) == [m EXCEPT !.stack = Pop(m), !.ret = "Ok"]

(* Value::Sequence arm, before the loop *)
AtSequenceBegin(m) ==
    Running(m) /\ Top(m).val.t = "Sequence" /\ Top(m).pos = 0

SequenceBeginStep(m) ==
    [m EXCEPT !.content = @ \o Txt(<<NL>>), !.stack = Advance(m)]

(* One iteration of `for v in s.iter()`, up to the recursive call on line 93 *)
AtSequenceEntry(m) ==
    /\ Running(m) /\ Top(m).val.t = "Sequence"
    /\ Top(m).pos >= 1 /\ Top(m).pos <= Len(Entries(m))

(* A renderer that hands the description of a list on to its elements *)
SequenceEntryStepInherit(m) ==
    LET f == Top(m)
    IN  [m EXCEPT !.content = @ \o indent(f.indent_level) \o Txt(<<DASH>>),
                  !.stack = Append(Advance(m),
                                   Frame(Entries(m)[f.pos], f.description,
                                         NextLevel(f.indent_level)))]

SequenceEntryStep(m) ==
    LET f == Top(m)
    IN  [m EXCEPT !.content = @ \o indent(f.indent_level) \o Txt(<<DASH>>),
                  !.stack = Append(Advance(m),
                                   Frame(Entries(m)[f.pos], None,
                                         NextLevel(f.indent_level)))]

AtSequenceEnd(m) ==
    /\ Running(m) /\ Top(m).val.t = "Sequence"
    /\ Top(m).pos > Len(Entries(m))

SequenceEndStep(m) == [m EXCEPT !.stack = Pop(m), !.ret = "Ok"]

(* The `_` arm: content.push_str(&serde_yaml::to_string(val)?).  The caller
   on line 85 or 93 drops the returned Result and goes on. *)
AtLeaf(m) == Running(m) /\ IsLeaf(Top(m).val)

LeafStep(m) ==
    LET r == ToYaml(Top(m).val)
    IN  IF r.ok
        THEN [m EXCEPT !.content = @ \o Txt(r.s),
                       !.stack = Pop(m), !.ret = "Ok"]
        ELSE [m EXCEPT !.stack = Pop(m), !.ret = "Err"]

(* document: the `?` on line 136, then Ok(content) *)
AtDocumentReturn(m) == m.pc = "run" /\ m.stack = <<>>

DocumentReturnStep(m) ==
    [m EXCEPT !.result = IF m.ret = "Err" THEN [ok |-> FALSE, s |-> <<>>]
                                          ELSE [ok |-> TRUE, s |-> m.content],
              !.pc = IF m.ret = "Err" THEN "err" ELSE "ok"]

(* indent_level + 1 overflows the u8 in this iteration *)
Overflows(m) == Top(m).indent_level = U8Max

(* A build with overflow checks panics there instead of wrapping: document
   never returns *)
PanicStep(m) == [m EXCEPT !.pc = "panic"]

-----------------------------------------------------------------------------
(* Inputs *)

MaxDepth == 2
MaxLen == 2

Foo == String(<<"foo">>)
Bar == String(<<"bar">>)
DescKey == String(DESCRIPTION)
HashKey == String(<<HASH, "x">>)
NumKey == Number(1)

(* The description texts of the example in the documentation of document *)
DescFoo == String(<<"Description for foo">>)
DescBar == String(<<"Description for bar">>)

(* A leaf that serde_yaml::to_string rejects *)
ErrLeaf == Tagged("!a", Tagged("!b", Number(1)))

Leaves ==
    {Null, Bool(TRUE), Number(42), String(<<"s">>), String(<<HASH, "x">>),
     Tagged("!a", Number(1)), ErrLeaf}

(* Sequences over S of length at most n *)
SeqsUpTo(S, n) == UNION {[1..k -> S] : k \in 0..n}

(* Entry lists over keys K and values S, of at most n entries, keys unique *)
EntryLists(K, S, n) ==
    {m \in SeqsUpTo({Entry(k, v) : k \in K, v \in S}, n) :
        \A a, b \in 1..Len(m) : m[a].k = m[b].k => a = b}

(* Containers with children in S: any single child, and up to MaxLen
   children when they all come from W *)
Containers(K, S, W) ==
    {Mapping(m) : m \in EntryLists(K, S, 1) \cup EntryLists(K, W, MaxLen)}
        \cup {Sequence(q) : q \in SeqsUpTo(S, 1) \cup SeqsUpTo(W, MaxLen)}

(* Trees of at most d nested containers over leaves L *)
RECURSIVE Trees(_, _, _, _)
Trees(K, L, W, d) ==
    IF d = 0 THEN L
    ELSE LET S == Trees(K, L, W, d - 1)
         IN  S \cup Containers(K, S, W \cap S)

(* Data trees rendered without a description *)
PlainData ==
    Trees({Foo, Bar, HashKey, NumKey}, Leaves,
          {Number(42), ErrLeaf, Sequence(<<>>)}, MaxDepth)

(* Data trees rendered with a description; a list of mappings counts as a
   leaf of the generator, so that mappings occur below list elements *)
DescribedData ==
    Trees({Foo, Bar, DescKey},
          {Number(42), Sequence(<<Mapping(<<Entry(Bar, Number(42))>>)>>)},
          {Number(42)}, MaxDepth)

(* Description nodes that are neither a string nor a mapping *)
OtherShapes ==
    {Number(1), Null, Bool(TRUE), Sequence(<<Number(1), Number(2)>>),
     Tagged("!t", DescFoo),
     Tagged("!t", Mapping(<<Entry(Bar, DescBar)>>)),
     Tagged("!t", Mapping(<<Entry(DescKey, DescFoo)>>))}

(* Description trees of at most d nested mappings over leaves L: any
   subtree under foo, and up to MaxLen strings under any keys *)
RECURSIVE DescTrees(_, _)
DescTrees(L, d) ==
    IF d = 0 THEN L
    ELSE LET S == DescTrees(L, d - 1)
             W == {DescFoo, DescBar}
         IN  S \cup {Mapping(m) :
                       m \in EntryLists({Foo}, S, 1)
                               \cup EntryLists({Foo, Bar, DescKey}, W, MaxLen)}

(* Every shape directly and under a key of the top level, and below that
   strings, numbers and tagged mappings *)
Descriptions ==
    OtherShapes
        \cup {Mapping(<<Entry(k, x)>>) : k \in {Foo, Bar}, x \in OtherShapes}
        \cup DescTrees({DescFoo, Number(1),
                        Tagged("!t", Mapping(<<Entry(Bar, DescBar)>>))},
                       MaxDepth)

Init ==
    /\ \/ val \in PlainData /\ description = None
       \/ val \in DescribedData /\ description \in Descriptions
    /\ content = <<>>
    /\ stack = <<>>
    /\ ret = "none"
    /\ result = NoResult
    /\ pc = "init"

-----------------------------------------------------------------------------
(* The state machine *)

M == Machine(content, stack, ret, result, pc)

Becomes(n) ==
    /\ content' = n.content
    /\ stack' = n.stack
    /\ ret' = n.ret
    /\ result' = n.result
    /\ pc' = n.pc
    /\ UNCHANGED <<val, description>>

DocumentCall == pc = "init" /\ Becomes(DocumentCallStep(val, description))

MappingBegin == AtMappingBegin(M) /\ Becomes(MappingBeginStep(M))

MappingEntry ==
    /\ AtMappingEntry(M)
    /\ \/ Becomes(MappingEntryStep(M))
       \/ Overflows(M) /\ Becomes(PanicStep(M))

MappingEnd == AtMappingEnd(M) /\ Becomes(MappingEndStep(M))

SequenceBegin == AtSequenceBegin(M) /\ Becomes(SequenceBeginStep(M))

SequenceEntry ==
    /\ AtSequenceEntry(M)
    /\ \/ Becomes(SequenceEntryStep(M))
       \/ Overflows(M) /\ Becomes(PanicStep(M))

SequenceEnd == AtSequenceEnd(M) /\ Becomes(SequenceEndStep(M))

Leaf == AtLeaf(M) /\ Becomes(LeafStep(M))

DocumentReturn == AtDocumentReturn(M) /\ Becomes(DocumentReturnStep(M))

Next ==
    \/ DocumentCall
    \/ MappingBegin
    \/ MappingEntry
    \/ MappingEnd
    \/ SequenceBegin
    \/ SequenceEntry
    \/ SequenceEnd
    \/ Leaf
    \/ DocumentReturn

Spec == Init /\ [][Next]_vars

-----------------------------------------------------------------------------
(* Trees nested deeper than a u8 counts: document is called on U8Max + 2
   nested containers of one kind. *)

InitDeep ==
    /\ val \in {Nested(kind, U8Max + 2) : kind \in {"Mapping", "Sequence"}}
    /\ description = None
    /\ content = <<>>
    /\ stack = <<>>
    /\ ret = "none"
    /\ result = NoResult
    /\ pc = "init"

SpecDeep == InitDeep /\ [][Next]_vars

-----------------------------------------------------------------------------
(* Vocabulary of the properties *)

Finished == pc \in {"ok", "err"}

(* The entry that the mapping iteration about to run works on *)
CurEntry == Entries(M)[Top(M).pos]

CurLevel == Top(M).indent_level

(* A mapping iteration runs and makes its recursive call *)
EntryRuns == AtMappingEntry(M) /\ pc' = "run"

(* The type label of each of the seven variants *)
Label(value) ==
    CASE value.t = "Null" -> "Null"
      [] value.t = "Bool" -> "Bool"
      [] value.t = "Number" -> "Number"
      [] value.t = "String" -> "String"
      [] value.t = "Sequence" -> "List"
      [] value.t = "Mapping" -> "Mapping"
      [] value.t = "Tagged" -> "Tagged"

(* The tokens written by an action *)
Out == Flat(content)

(* The tokens of the string that document returned *)
Returned == Flat(result.s)

(* The key line of entry e at level l, for a key that is a plain string *)
StringKeyLine(e, l) ==
    [j \in 1..l |-> INDENT] \o e.k.v \o <<" (", Label(e.v), "): ">>

(* The key line of entry e at level l as the renderer makes it, any key *)
PlainKeyLine(e, l) == Flat(KeyLine(e.k, e.v, l))

(* The comment line with text x at level l *)
CommentLine(x, l) == [j \in 1..l |-> INDENT] \o <<HASH>> \o x \o <<NL>>

(* The node under key k of description d when d is a mapping, else None *)
Located(d, k) == IF d.t = "Mapping" THEN Get(d, k) ELSE None

(* pat occurs in s at index i *)
OccursAt(s, pat, i) ==
    /\ i + Len(pat) - 1 <= Len(s)
    /\ SubSeq(s, i, i + Len(pat) - 1) = pat

(* Token i of s is the first of a line *)
LineStart(s, i) == i = 1 \/ s[i - 1] = NL

(* The leaves of a data tree *)
RECURSIVE LeavesOf(_)
LeavesOf(v) ==
    IF v.t = "Mapping" THEN UNION {LeavesOf(v.v[j].v) : j \in 1..Len(v.v)}
    ELSE IF v.t = "Sequence" THEN UNION {LeavesOf(v.v[j]) : j \in 1..Len(v.v)}
    ELSE {v}

(* The keys of all mappings of a data tree *)
RECURSIVE KeysOf(_)
KeysOf(v) ==
    IF v.t = "Mapping"
    THEN {v.v[j].k : j \in 1..Len(v.v)}
            \cup UNION {KeysOf(v.v[j].v) : j \in 1..Len(v.v)}
    ELSE IF v.t = "Sequence" THEN UNION {KeysOf(v.v[j]) : j \in 1..Len(v.v)}
    ELSE {}

(* The machine step enabled in m, and the run of document to its end *)
StepOf(m) ==
    CASE AtMappingBegin(m) -> MappingBeginStep(m)
      [] AtMappingEntry(m) -> MappingEntryStep(m)
      [] AtMappingEnd(m) -> MappingEndStep(m)
      [] AtSequenceBegin(m) -> SequenceBeginStep(m)
      [] AtSequenceEntry(m) -> SequenceEntryStep(m)
      [] AtSequenceEnd(m) -> SequenceEndStep(m)
      [] AtLeaf(m) -> LeafStep(m)
      [] AtDocumentReturn(m) -> DocumentReturnStep(m)

RECURSIVE RunFrom(_)
RunFrom(m) == IF m.pc = "run" THEN RunFrom(StepOf(m)) ELSE m

Document(v, d) == RunFrom(DocumentCallStep(v, d)).result

-----------------------------------------------------------------------------
(* The example of the documentation and of tests::document_simple *)

ExampleData == Mapping(<<Entry(Foo, Mapping(<<Entry(Bar, Number(42))>>))>>)

ExampleDesc ==
    Mapping(<<Entry(Foo, Mapping(<<Entry(DescKey, DescFoo),
                                   Entry(Bar, DescBar)>>))>>)

ExampleExpected ==
    <<HASH, "Description for foo", NL,
      "foo", " (", "Mapping", "): ", NL,
      INDENT, HASH, "Description for bar", NL,
      INDENT, "bar", " (", "Number", "): ", "42", NL>>

-----------------------------------------------------------------------------
(* C1: when the description node found under an entry's key in the current
   description mapping is a mapping holding `__description__: X` with X a
   string, the iteration pushes exactly the comment line `# X` and then the
   key line, both at the level of the mapping, and the recursive call on the
   value gets that description mapping, whose string entries are in turn
   pushed as the comments of the value's own keys.  The example of the
   documentation renders as documented. *)

C1Node == Located(Top(M).description, CurEntry.k)

C1Step ==
    /\ (EntryRuns /\ C1Node.t = "Mapping"
           /\ Located(C1Node, DescKey).t = "String")
       => /\ Out' = Out \o CommentLine(Located(C1Node, DescKey).v, CurLevel)
                         \o StringKeyLine(CurEntry, CurLevel)
          /\ Top(M').description = C1Node
          /\ Top(M').val = CurEntry.v
    /\ (EntryRuns /\ C1Node.t = "String")
       => Out' = Out \o CommentLine(C1Node.v, CurLevel)
                      \o StringKeyLine(CurEntry, CurLevel)

C1Example ==
    (pc = "ok" /\ val = ExampleData /\ description = ExampleDesc)
        => result.ok /\ Returned = ExampleExpected

C1_DescriptionField == []C1Example /\ [][C1Step]_vars

C1_Witness ==
    /\ pc = "ok" /\ val = ExampleData /\ description = ExampleDesc
    /\ Returned = ExampleExpected

-----------------------------------------------------------------------------
(* C2: when the serialization of some leaf of the data tree fails, whatever
   its depth, document returns the error; so a returned Ok(s) means that
   every leaf was serialized, with its text in s. *)

C2_ErrorPropagates ==
    Finished =>
        IF \A x \in LeavesOf(val) : ToYaml(x).ok
        THEN /\ result.ok
             /\ \A x \in LeavesOf(val) :
                    \E i \in 1..Len(Returned) : OccursAt(Returned, ToYaml(x).s, i)
        ELSE ~result.ok

-----------------------------------------------------------------------------
(* C3: under an entry whose located description node is neither a string
   nor a mapping, no comment line is pushed for the entry's key nor for any
   key of the entry's value, at any depth below it, and document returns
   Ok. *)

OtherShaped(node) == node.t \notin {"None", "String", "Mapping"}

(* The description node located for the entry that frame j is working on,
   the one whose value the next frame renders *)
NodeOfCaller(j) ==
    Located(stack[j].description, stack[j].val.v[stack[j].pos - 1].k)

C3Suppressed ==
    \/ OtherShaped(Located(Top(M).description, CurEntry.k))
    \/ \E j \in 1..(Len(stack) - 1) :
           stack[j].val.t = "Mapping" /\ OtherShaped(NodeOfCaller(j))

C3_OtherShapesSuppress ==
    [][(EntryRuns /\ C3Suppressed)
          => Out' = Out \o PlainKeyLine(CurEntry, CurLevel)]_vars

-----------------------------------------------------------------------------
(* C4: every call of document_val below a list element has description
   None, and no mapping iteration below a list element pushes a comment
   line, whatever description was given to document. *)

BelowList(j) == \E i \in 1..(j - 1) : stack[i].val.t = "Sequence"

C4Frames ==
    \A j \in 1..Len(stack) : BelowList(j) => IsNone(stack[j].description)

C4Step ==
    (EntryRuns /\ BelowList(Len(stack)))
        => Out' = Out \o PlainKeyLine(CurEntry, CurLevel)

C4_ListSuppression == []C4Frames /\ [][C4Step]_vars

(* A mapping below a list element is rendered while the description of the
   list's own key has an entry for one of the mapping's keys *)
C4_Witness ==
    /\ pc = "run" /\ Len(stack) = 3 /\ AtMappingEntry(M)
    /\ stack[2].val.t = "Sequence"
    /\ Located(stack[1].description, Foo).t = "Mapping"
    /\ Located(Located(stack[1].description, Foo), CurEntry.k).t = "String"

-----------------------------------------------------------------------------
(* C5: without a description, no line of the output starts with `# `. *)

NoHashLine(s) == \A i \in 1..Len(s) : LineStart(s, i) => s[i] # HASH

C5_NoCommentWithoutDescription ==
    (pc = "ok" /\ IsNone(description)) => NoHashLine(Returned)

(* C5 as amended: without a description, no line of the output starts with
   `# ` provided that the text of no mapping key of the data tree starts
   with `# `. *)

HashFreeKeys(v) == \A k \in KeysOf(v) : KeyText(k) = <<>> \/ Head(KeyText(k)) # HASH

C5_NoCommentUnlessKeyText ==
    (pc = "ok" /\ IsNone(description) /\ HashFreeKeys(val))
        => NoHashLine(Returned)

(* A tree with a string leaf `# x` under an ordinary key was rendered *)
C5_Witness ==
    /\ pc = "ok" /\ IsNone(description)
    /\ val = Mapping(<<Entry(Foo, String(<<HASH, "x">>))>>)
    /\ Returned = <<"foo", " (", "String", "): ", "'", HASH, "x", "'", NL>>

-----------------------------------------------------------------------------
(* C6: the key lines of a mapping appear in the output in the order of the
   mapping's entries, and the output is the same for every reordering of
   the entries of the mappings of the description tree. *)

(* The patterns of pats occur in s one after the other, from index from on *)
RECURSIVE InOrderFrom(_, _, _, _)
InOrderFrom(s, pats, j, from) ==
    IF j > Len(pats) THEN TRUE
    ELSE LET at == {i \in from..Len(s) : OccursAt(s, pats[j], i)}
         IN  /\ at # {}
             /\ InOrderFrom(s, pats, j + 1,
                            (CHOOSE i \in at : \A h \in at : i <= h)
                                + Len(pats[j]))

(* The description trees that differ from d in the order of entries only *)
RECURSIVE Reorderings(_)
Reorderings(d) ==
    IF d.t = "Mapping"
    THEN LET n == Len(d.v)
             E == UNION {{Entry(d.v[j].k, x) : x \in Reorderings(d.v[j].v)} :
                           j \in 1..n}
         IN  {Mapping(m) : m \in {q \in [1..n -> E] :
                 \A a, b \in 1..n : q[a].k = q[b].k => a = b}}
    ELSE IF d.t = "Tagged"
    THEN {Tagged(d.v.tag, x) : x \in Reorderings(d.v.value)}
    ELSE {d}

-----------------------------------------------------------------------------
(* C7: a mapping at level 0 pushes no leading line break, so the empty
   top-level mapping renders as the empty string; a mapping at a level above
   0 and a list at any level push exactly one line break before their
   entries, and an empty one pushes nothing else. *)

C7Step ==
    /\ AtMappingBegin(M) => Out' = IF CurLevel = 0 THEN Out ELSE Out \o <<NL>>
    /\ AtSequenceBegin(M) => Out' = Out \o <<NL>>
    /\ (AtMappingEnd(M) \/ AtSequenceEnd(M)) => Out' = Out

C7Final ==
    Finished =>
        /\ val = Mapping(<<>>) => result = [ok |-> TRUE, s |-> <<>>]
        /\ val = Sequence(<<>>) => result.ok /\ Returned = <<NL>>
        /\ (val = Mapping(<<Entry(Foo, Mapping(<<>>))>>) /\ IsNone(description))
             => Returned = <<"foo", " (", "Mapping", "): ", NL>>
        /\ (val = Mapping(<<Entry(Foo, Sequence(<<>>))>>) /\ IsNone(description))
             => Returned = <<"foo", " (", "List", "): ", NL>>

C7_LeadingNewline == []C7Final /\ [][C7Step]_vars

C7_Witness ==
    pc = "ok" /\ val = Mapping(<<>>) /\ result = [ok |-> TRUE, s |-> <<>>]

-----------------------------------------------------------------------------
(* C8: the type label on the key line of an entry is the one of the variant
   of the entry's value, whatever the key, the description and the level. *)

C8Step ==
    EntryRuns =>
        /\ Len(Out') >= Len(Out) + 3
        /\ SubSeq(Out', Len(Out') - 2, Len(Out'))
               = <<" (", Label(CurEntry.v), "): ">>

C8_TypeLabel == [][C8Step]_vars

(* A list under a key that is not a string has been given its key line *)
C8_Witness ==
    /\ pc = "ok" /\ IsNone(description)
    /\ val = Mapping(<<Entry(NumKey, Sequence(<<>>))>>)
    /\ Returned = <<"Number(", "1", ")", " (", "List", "): ", NL>>

-----------------------------------------------------------------------------
(* C9: the `__description__` entry of a description mapping is the comment
   of the enclosing key only: a key `__description__` of the value under
   that key gets no comment from it. *)

C9_DescriptionNotInherited ==
    [][(EntryRuns /\ Len(stack) >= 2 /\ CurEntry.k = DescKey)
          => Out' = Out \o PlainKeyLine(CurEntry, CurLevel)]_vars

-----------------------------------------------------------------------------
(* C10: in every call of document_val the level is the number of enclosing
   containers, at every depth, and document returns. *)

C10_LevelIsDepth ==
    /\ pc # "panic"
    /\ \A j \in 1..Len(stack) : stack[j].indent_level = j - 1

=============================================================================
